---- MODULE Spec2Model ----
(***************************************************************************)
(* Model of wherehows-web/app/utils/api/fetcher.ts: the five request       *)
(* helpers getJSON, postJSON, deleteJSON, putJSON and getHeaders, the      *)
(* header merge withBaseFetchHeaders and the response handling json.       *)
(*                                                                         *)
(* JavaScript objects live in a heap: an address (a string) maps to an     *)
(* object, an object is the sequence of its <<key, value>> properties in   *)
(* insertion order, and a value is a pair <<tag, payload>> with tag one    *)
(* of "str", "num", "ref" (payload: an address) and "undefined".           *)
(***************************************************************************)
EXTENDS Integers, Sequences, FiniteSets, TLC

VARIABLES
    heap,   \* the callers' objects: configurations, header mappings, data
    orig,   \* the callers' objects as they were supplied (never written)
    calls   \* per call: its position, operation, configuration, the request
            \* issued, the number of requests issued, the response or
            \* failure the collaborator gave, the body reads and the outcome

vars == <<heap, orig, calls>>

\* Number of calls the concurrent caller may have issued.
MaxCalls == 2

CallIds == 1..MaxCalls

-----------------------------------------------------------------------------
(* Values and objects *)

Undefined == <<"undefined", "">>
Str(s) == <<"str", s>>
Num(s) == <<"num", s>>
Ref(a) == <<"ref", a>>

\* JavaScript truthiness of a value: undefined, "" and 0 are falsy, every
\* object reference is truthy.
Truthy(v) ==
    CASE v[1] = "undefined" -> FALSE
      [] v[1] = "str" -> v[2] /= ""
      [] v[1] = "num" -> v[2] /= "0"
      [] OTHER -> TRUE

Keys(obj) == {obj[i][1] : i \in 1..Len(obj)}

Has(obj, key) == key \in Keys(obj)

\* obj[key]: the property's value, undefined when there is no such property.
Get(obj, key) ==
    IF Has(obj, key)
    THEN LET i == CHOOSE j \in 1..Len(obj) : obj[j][1] = key IN obj[i][2]
    ELSE Undefined

\* obj[key] = val: an existing property keeps its place, a new one is appended.
Put(obj, key, val) ==
    IF Has(obj, key)
    THEN [i \in 1..Len(obj) |-> IF obj[i][1] = key THEN <<key, val>> ELSE obj[i]]
    ELSE Append(obj, <<key, val>>)

\* Copies the own enumerable properties of src onto target, in order.
RECURSIVE CopyProps(_, _)
CopyProps(target, src) ==
    IF src = <<>> THEN target
    ELSE CopyProps(Put(target, Head(src)[1], Head(src)[2]), Tail(src))

\* Object.assign(target, ...sources) on the heap h: the object at address
\* target is modified in place; undefined sources are skipped.
RECURSIVE ObjectAssign(_, _, _)
ObjectAssign(h, target, sources) ==
    IF sources = <<>> THEN h
    ELSE LET s == Head(sources)
             h1 == IF s[1] = "ref"
                   THEN [h EXCEPT ![target] = CopyProps(h[target], h[s[2]])]
                   ELSE h
         IN ObjectAssign(h1, target, Tail(sources))

\* A new object literal at address a.
New(h, a, obj) == (a :> obj) @@ h

-----------------------------------------------------------------------------
(* Addresses of the objects one call creates. They are dead once the call   *)
(* has handed its request to the collaborator, so the same names serve      *)
(* every call.                                                              *)

DefaultsAddr == "new:defaults"
WrapAddr == "new:withBaseFetchHeaders"
RequestBodyAddr == "new:requestBody"
BodyLitAddr == "new:body"
MethodAddr == "new:method"
FetchConfigAddr == "new:fetchConfig"

\* JSON.stringify of a flat object: {"k":v,...} with numbers bare and
\* strings quoted, in property order.
RECURSIVE StringifyProps(_)
StringifyProps(obj) ==
    IF obj = <<>> THEN ""
    ELSE LET p == Head(obj)
             v == IF p[2][1] = "num" THEN p[2][2] ELSE "\"" \o p[2][2] \o "\""
             sep == IF Len(obj) > 1 THEN "," ELSE ""
         IN "\"" \o p[1] \o "\":" \o v \o sep \o StringifyProps(Tail(obj))

Stringify(obj) == "{" \o StringifyProps(obj) \o "}"

\* JSON.stringify(v) for a reference v into the heap h.
JSONStringify(h, v) == Stringify(h[v[2]])

\* The request as the request-execution collaborator receives it: the url,
\* the options object and the headers object the options refer to.
fetch(h, url, fetchConfig) ==
    LET options == h[fetchConfig]
        hv == Get(options, "headers")
    IN [url |-> url[2],
        options |-> options,
        headers |-> IF hv[1] = "ref" THEN h[hv[2]] ELSE <<>>]

\* withBaseFetchHeaders with the arguments of Object.assign exchanged: the
\* defaults are copied over a copy of the caller's headers.
withBaseFetchHeadersDefaultsLast(h, headers) ==
    LET h1 == New(h, DefaultsAddr, <<>>)
        h2 == New(h1, MethodAddr,
                  << <<"Accept", Str("application/json")>>,
                     <<"Content-Type", Str("application/json")>> >>)
        h3 == ObjectAssign(h2, DefaultsAddr, <<headers, Ref(MethodAddr)>>)
    IN New(h3, WrapAddr, << <<"headers", Ref(DefaultsAddr)>> >>)

\* withBaseFetchHeaders with the caller's headers object as the target of
\* Object.assign: the defaults it lacks are written into the caller's object.
withBaseFetchHeadersInPlace(h, headers) ==
    IF headers[1] /= "ref"
    THEN New(New(h, DefaultsAddr,
                 << <<"Accept", Str("application/json")>>,
                    <<"Content-Type", Str("application/json")>> >>),
             WrapAddr, << <<"headers", Ref(DefaultsAddr)>> >>)
    ELSE LET h1 == New(h, DefaultsAddr,
                       << <<"Accept", Str("application/json")>>,
                          <<"Content-Type", Str("application/json")>> >>)
             h2 == ObjectAssign(h1, DefaultsAddr, <<headers>>)
             h3 == ObjectAssign(h2, headers[2], <<Ref(DefaultsAddr)>>)
         IN New(h3, WrapAddr, << <<"headers", headers>> >>)

\* withBaseFetchHeaders(headers): a new object { headers: Object.assign(
\* { Accept, 'Content-Type' }, headers) } at WrapAddr.
withBaseFetchHeaders(h, headers) ==
    LET h1 == New(h, DefaultsAddr,
                  << <<"Accept", Str("application/json")>>,
                     <<"Content-Type", Str("application/json")>> >>)
        h2 == ObjectAssign(h1, DefaultsAddr, <<headers>>)
    IN New(h2, WrapAddr, << <<"headers", Ref(DefaultsAddr)>> >>)

\* json(url = '', fetchConfig): invokes the collaborator with the url and the
\* options; what follows the response is FetchResolveJSON below.
json(h, url, fetchConfig) ==
    [heap |-> h,
     request |-> fetch(h, IF url = Undefined THEN Str("") ELSE url, fetchConfig)]

\* { ...withBaseFetchHeaders(config.headers), method }: a new object with the
\* properties of the spread object, then method.
SpreadWithMethod(h, method) ==
    New(h, FetchConfigAddr, Put(CopyProps(<<>>, h[WrapAddr]), "method", Str(method)))

\* getJSON with the configuration spread into the options as well.
getJSONForwardsConfig(h, config) ==
    LET h1 == withBaseFetchHeaders(h, Get(h[config], "headers"))
        h2 == New(h1, FetchConfigAddr,
                  Put(CopyProps(CopyProps(<<>>, h1[config]), h1[WrapAddr]),
                      "method", Str("GET")))
    IN json(h2, Get(h[config], "url"), FetchConfigAddr)

getJSON(h, config) ==
    LET h1 == withBaseFetchHeaders(h, Get(h[config], "headers"))
        h2 == SpreadWithMethod(h1, "GET")
    IN json(h2, Get(h[config], "url"), FetchConfigAddr)

\* requestBody with the data attached as it is, not serialized: the
\* collaborator sends an object's string conversion.
requestBodyUnserialized(h, config) ==
    LET data == Get(h[config], "data")
    IN New(h, RequestBodyAddr,
           IF Truthy(data) THEN << <<"body", Str("[object Object]")>> >> ELSE <<>>)

\* config.data ? { body: JSON.stringify(config.data) } : {}
requestBody(h, config) ==
    LET data == Get(h[config], "data")
    IN New(h, RequestBodyAddr,
           IF Truthy(data) THEN << <<"body", Str(JSONStringify(h, data))>> >> ELSE <<>>)

postJSON(h, config) ==
    LET data == Get(h[config], "data")
        h1 == requestBody(h, config)
        \* config.data && { body: JSON.stringify(config.data) }
        h2 == IF Truthy(data)
              THEN New(h1, BodyLitAddr, << <<"body", Str(JSONStringify(h1, data))>> >>)
              ELSE h1
        second == IF Truthy(data) THEN Ref(BodyLitAddr) ELSE data
        h3 == withBaseFetchHeaders(h2, Get(h2[config], "headers"))
        h4 == New(h3, MethodAddr, << <<"method", Str("POST")>> >>)
        h5 == ObjectAssign(h4, RequestBodyAddr, <<second, Ref(WrapAddr), Ref(MethodAddr)>>)
    IN json(h5, Get(h5[config], "url"), RequestBodyAddr)

deleteJSON(h, config) ==
    LET h1 == requestBody(h, config)
        h2 == withBaseFetchHeaders(h1, Get(h1[config], "headers"))
        h3 == New(h2, MethodAddr, << <<"method", Str("DELETE")>> >>)
        h4 == ObjectAssign(h3, RequestBodyAddr, <<Ref(WrapAddr), Ref(MethodAddr)>>)
    IN json(h4, Get(h4[config], "url"), RequestBodyAddr)

putJSON(h, config) ==
    LET h1 == requestBody(h, config)
        h2 == withBaseFetchHeaders(h1, Get(h1[config], "headers"))
        h3 == New(h2, MethodAddr, << <<"method", Str("PUT")>> >>)
        h4 == ObjectAssign(h3, RequestBodyAddr, <<Ref(WrapAddr), Ref(MethodAddr)>>)
    IN json(h4, Get(h4[config], "url"), RequestBodyAddr)

\* The part of getHeaders up to the await: builds the options and invokes the
\* collaborator with config.url as it is.
getHeaders(h, config) ==
    LET h1 == withBaseFetchHeaders(h, Get(h[config], "headers"))
        h2 == SpreadWithMethod(h1, "HEAD")
    IN [heap |-> h2, request |-> fetch(h2, Get(h2[config], "url"), FetchConfigAddr)]

Ops == {"getJSON", "postJSON", "deleteJSON", "putJSON", "getHeaders"}

JsonOps == Ops \ {"getHeaders"}

\* The synchronous part of a call of the operation op on the configuration
\* object at address config.
Invoke(op, h, config) ==
    CASE op = "getJSON" -> getJSON(h, config)
      [] op = "postJSON" -> postJSON(h, config)
      [] op = "deleteJSON" -> deleteJSON(h, config)
      [] op = "putJSON" -> putJSON(h, config)
      [] op = "getHeaders" -> getHeaders(h, config)

-----------------------------------------------------------------------------
(* The collaborators: responses, body decoding, the status-message lookup   *)
(* and the structured API error.                                            *)

\* Responses the request-execution collaborator may resolve with. ok is the
\* success flag (status 200..299); headers names the header collection.
Responses ==
    { [ok |-> TRUE, status |-> 200, headers |-> "Headers#1", body |-> "{\"a\":1}"],
      [ok |-> TRUE, status |-> 200, headers |-> "Headers#2", body |-> "<html>"],
      [ok |-> FALSE, status |-> 404, headers |-> "Headers#3", body |-> "{\"a\":1}"],
      [ok |-> FALSE, status |-> 500, headers |-> "Headers#4", body |-> ""] }

NoResponse == [ok |-> FALSE, status |-> 0, headers |-> "", body |-> ""]

\* Failures of the collaborator itself.
TransportErrors == {"TypeError: Failed to fetch"}

\* The objects whose JSON text a response body may hold.
JsonValues ==
    { <<>>,
      << <<"a", Num("1")>> >>,
      << <<"a", Num("1")>>, <<"b", Str("x")>> >> }

\* response.json(): the object whose JSON text the body is, or a SyntaxError.
ParseJSON(text) ==
    IF \E o \in JsonValues : Stringify(o) = text
    THEN [ok |-> TRUE, value |-> CHOOSE o \in JsonValues : Stringify(o) = text]
    ELSE [ok |-> FALSE, value |-> <<>>]

\* The status-to-message lookup.
apiErrorStatusMessage(status) ==
    CASE status = 404 -> "Could not find the requested resource"
      [] status = 500 -> "An error occurred with the server"
      [] OTHER -> "An error occurred"

Pending ==
    [state |-> "pending", kind |-> "", json |-> <<>>, headers |-> "",
     error |-> "", status |-> 0, message |-> ""]

Resolved(kind, jsonValue, headers) ==
    [Pending EXCEPT !.state = "resolved", !.kind = kind, !.json = jsonValue,
                    !.headers = headers]

\* A rejection with a failure that is not of the helper's making.
Rejected(kind, error) ==
    [Pending EXCEPT !.state = "rejected", !.kind = kind, !.error = error]

\* new ApiError(status, message)
ApiError(status, message) ==
    [Pending EXCEPT !.state = "rejected", !.kind = "ApiError", !.status = status,
                    !.message = message]

\* throwIfApiError(response): throws the ApiError of a non-success response,
\* and otherwise returns response.json(), which is then awaited.
throwIfApiError(response) ==
    IF ~response.ok
    THEN [pc |-> "settled", reads |-> 0,
          outcome |-> ApiError(response.status, apiErrorStatusMessage(response.status))]
    ELSE [pc |-> "decoding", reads |-> 1, outcome |-> Pending]

\* json's continuation without the status check: .then(response => response.json())
jsonThenUnchecked(response) == [pc |-> "decoding", reads |-> 1, outcome |-> Pending]

\* json's continuation with the result of throwIfApiError dropped:
\* .then(response => { throwIfApiError(response); })
jsonThenDropsResult(response) ==
    [pc |-> "settled", reads |-> 1, outcome |-> Resolved("undefined", <<>>, "")]

\* json's continuation: .then(response => throwIfApiError(response))
jsonThen(response) == throwIfApiError(response)

\* getHeaders after the await, without the test of ok.
getHeadersThenUnchecked(response) ==
    [pc |-> "settled", reads |-> 0, outcome |-> Resolved("headers", <<>>, response.headers)]

\* getHeaders after the await: const { ok, headers, status } = response.
getHeadersThen(response) ==
    IF response.ok
    THEN [pc |-> "settled", reads |-> 0, outcome |-> Resolved("headers", <<>>, response.headers)]
    ELSE [pc |-> "settled", reads |-> 0,
          outcome |-> ApiError(response.status, apiErrorStatusMessage(response.status))]

\* The promise of response.json() settles: the call resolves with the decoded
\* body or fails with the decode failure.
decodeThen(response) ==
    LET d == ParseJSON(response.body)
    IN IF d.ok THEN Resolved("json", d.value, "")
       ELSE Rejected("decode", "SyntaxError")

\* A rejection handler that wraps the collaborator's failure in an ApiError.
fetchCatchWraps(e) ==
    [pc |-> "settled", fetches |-> 0, outcome |-> ApiError(0, apiErrorStatusMessage(0))]

\* A rejection handler that issues the request again.
fetchCatchRetries(e) ==
    [pc |-> "fetching", fetches |-> 1, outcome |-> Pending]

\* A rejection of the collaborator's promise passes through .then and await.
fetchCatch(e) ==
    [pc |-> "settled", fetches |-> 0, outcome |-> Rejected("transport", e)]

-----------------------------------------------------------------------------
(* The callers' objects *)

NoRequest == [url |-> "", options |-> <<>>, headers |-> <<>>]

Idle ==
    [pc |-> "idle", op |-> "", config |-> "", request |-> NoRequest, fetches |-> 0,
     response |-> NoResponse, transport |-> "", bodyReads |-> 0, outcome |-> Pending,
     reused |-> FALSE]

\* Properties a configuration may carry beyond url, headers and data.
Extras ==
    << <<"credentials", Str("include")>>, <<"method", Str("PATCH")>>,
       <<"body", Str("raw")>> >>

HeaderMenu ==
    { << <<"Content-Type", Str("text/plain")>> >>,
      << <<"Accept", Str("text/html")>>, <<"X-Trace", Str("t1")>> >>,
      << <<"content-type", Str("text/plain")>>, <<"Accept", Str("")>> >>,
      <<>> }

DataMenu == JsonValues

\* A configuration object { url, headers?, data?, ...extras }.
ConfigObject(url, hdr, data, extras) ==
    << <<"url", Str(url)>> >>
      \o (IF hdr = Undefined THEN <<>> ELSE << <<"headers", hdr>> >>)
      \o (IF data = Undefined THEN <<>> ELSE << <<"data", data>> >>)
      \o extras

\* The heap of a caller that issues calls concurrently on two configurations.
TwoConfigs ==
    ( "cfgA" :> ConfigObject("/api/a", Ref("hdrA"), Ref("dataA"), Extras)
   @@ "hdrA" :> << <<"Content-Type", Str("text/plain")>>, <<"X-Trace", Str("t1")>> >>
   @@ "dataA" :> << <<"a", Num("1")>> >>
   @@ "cfgB" :> ConfigObject("/api/b", Undefined, Undefined, <<>>) )

\* The heaps of a caller with one configuration, over the menus.
OneConfig ==
    { ( "cfg" :> ConfigObject("/api/c", Ref("hdr"), Ref("data"), x)
     @@ "hdr" :> hs @@ "data" :> d ) :
        hs \in HeaderMenu, d \in DataMenu, x \in {<<>>, Extras} }
    \cup
    { ( "cfg" :> ConfigObject("/api/c", Undefined, Ref("data"), x) @@ "data" :> d ) :
        d \in DataMenu, x \in {<<>>, Extras} }
    \cup
    { ( "cfg" :> ConfigObject("/api/c", Ref("hdr"), Undefined, x) @@ "hdr" :> hs ) :
        hs \in HeaderMenu, x \in {<<>>, Extras} }
    \cup
    { ( "cfg" :> ConfigObject("/api/c", Undefined, Undefined, x) ) : x \in {<<>>, Extras} }

\* The configuration objects of a heap.
Configs(h) == {a \in DOMAIN h : Has(h[a], "url")}

-----------------------------------------------------------------------------
(* The state machine *)

Init ==
    /\ heap = TwoConfigs
    /\ orig = heap
    /\ calls = [c \in CallIds |-> Idle]

InitSeq ==
    /\ heap \in OneConfig
    /\ orig = heap
    /\ calls = [c \in CallIds |-> Idle]

\* The caller calls op(config): the request is built and the collaborator is
\* invoked before the call returns its promise. The objects the call created
\* are no longer the caller's to reach.
Call(c, op, config) ==
    /\ calls[c].pc = "idle"
    /\ IF c = 1 THEN TRUE ELSE calls[c - 1].pc /= "idle"
    /\ config \in Configs(heap)
    /\ LET r == Invoke(op, heap, config)
       IN /\ heap' = [a \in DOMAIN heap |-> r.heap[a]]
          /\ calls' = [calls EXCEPT ![c] =
                 [Idle EXCEPT !.pc = "fetching", !.op = op, !.config = config,
                              !.request = r.request, !.fetches = 1,
                              !.reused = calls[c].reused]]
    /\ UNCHANGED orig

\* The collaborator's promise rejects.
FetchReject(c, e) ==
    /\ calls[c].pc = "fetching"
    /\ LET s == fetchCatch(e)
       IN calls' = [calls EXCEPT ![c].pc = s.pc, ![c].transport = e,
                                 ![c].outcome = s.outcome,
                                 ![c].fetches = @ + s.fetches]
    /\ UNCHANGED <<heap, orig>>

\* FetchResolveJSON with the response kept in a variable all calls share: the
\* continuation of one call reads the response another call stored last.
FetchResolveJSONShared(c, response) ==
    /\ calls[c].pc = "fetching"
    /\ calls[c].op \in JsonOps
    /\ LET others == {d \in CallIds \ {c} : calls[d].response /= NoResponse}
           seen == IF others = {} THEN response
                   ELSE calls[CHOOSE d \in others : TRUE].response
           s == jsonThen(seen)
       IN calls' = [calls EXCEPT ![c].pc = s.pc, ![c].response = response,
                                 ![c].bodyReads = @ + s.reads,
                                 ![c].outcome = s.outcome]
    /\ UNCHANGED <<heap, orig>>

\* The collaborator's promise resolves with a response, for one of the four
\* JSON operations.
FetchResolveJSON(c, response) ==
    /\ calls[c].pc = "fetching"
    /\ calls[c].op \in JsonOps
    /\ LET s == jsonThen(response)
       IN calls' = [calls EXCEPT ![c].pc = s.pc, ![c].response = response,
                                 ![c].bodyReads = @ + s.reads,
                                 ![c].outcome = s.outcome]
    /\ UNCHANGED <<heap, orig>>

\* The collaborator's promise resolves with a response, for getHeaders.
FetchResolveHeaders(c, response) ==
    /\ calls[c].pc = "fetching"
    /\ calls[c].op = "getHeaders"
    /\ LET s == getHeadersThen(response)
       IN calls' = [calls EXCEPT ![c].pc = s.pc, ![c].response = response,
                                 ![c].bodyReads = @ + s.reads,
                                 ![c].outcome = s.outcome]
    /\ UNCHANGED <<heap, orig>>

\* The body decoding of a success response settles.
DecodeSettle(c) ==
    /\ calls[c].pc = "decoding"
    /\ calls' = [calls EXCEPT ![c].pc = "settled",
                              ![c].outcome = decodeThen(calls[c].response)]
    /\ UNCHANGED <<heap, orig>>

\* The caller has taken the outcome of its call and may call again, with the
\* same configuration object (reused records that it has called before).
Return(c) ==
    /\ calls[c].pc = "settled"
    /\ calls' = [calls EXCEPT ![c] = [Idle EXCEPT !.reused = TRUE]]
    /\ UNCHANGED <<heap, orig>>

Next ==
    \/ \E c \in CallIds, op \in Ops, config \in DOMAIN heap : Call(c, op, config)
    \/ \E c \in CallIds, e \in TransportErrors : FetchReject(c, e)
    \/ \E c \in CallIds, r \in Responses : FetchResolveJSON(c, r)
    \/ \E c \in CallIds, r \in Responses : FetchResolveHeaders(c, r)
    \/ \E c \in CallIds : DecodeSettle(c)

\* A caller that has one call in flight at a time and reuses its configuration.
NextSeq ==
    \/ \E op \in Ops, config \in DOMAIN heap : Call(1, op, config)
    \/ \E e \in TransportErrors : FetchReject(1, e)
    \/ \E r \in Responses : FetchResolveJSON(1, r)
    \/ \E r \in Responses : FetchResolveHeaders(1, r)
    \/ DecodeSettle(1)
    \/ Return(1)

Spec == Init /\ [][Next]_vars

SpecSeq == InitSeq /\ [][NextSeq]_vars

-----------------------------------------------------------------------------
(* Properties *)

Active(c) == calls[c].pc /= "idle"

\* The configuration object a call was given, as the caller supplied it.
ConfigOf(c) == orig[calls[c].config]

\* The caller's header mapping of a call (empty when it supplied none).
CallerHeaders(c) ==
    LET hv == Get(ConfigOf(c), "headers")
    IN IF hv[1] = "ref" THEN orig[hv[2]] ELSE <<>>

\* The HTTP method of each operation.
MethodOf(op) ==
    CASE op = "getJSON" -> "GET"
      [] op = "postJSON" -> "POST"
      [] op = "deleteJSON" -> "DELETE"
      [] op = "putJSON" -> "PUT"
      [] op = "getHeaders" -> "HEAD"

BodyOps == {"postJSON", "deleteJSON", "putJSON"}

\* C1: for every operation and every caller header mapping (or none), the
\* headers of the issued request hold every caller key with the caller's
\* value, and Accept and Content-Type with application/json for each of
\* these two keys the caller did not supply.
C1_HeadersMerged ==
    \A c \in CallIds : Active(c) =>
        LET H == CallerHeaders(c)
            R == calls[c].request.headers
        IN /\ Get(calls[c].request.options, "headers")[1] = "ref"
           /\ \A k \in Keys(H) : Has(R, k) /\ Get(R, k) = Get(H, k)
           /\ \A k \in {"Accept", "Content-Type"} :
                  ~Has(H, k) => Has(R, k) /\ Get(R, k) = Str("application/json")

\* A PUT whose caller set only Content-Type went out with the caller's
\* Content-Type and the default Accept.
C1_Witness ==
    \E c \in CallIds :
        /\ calls[c].op = "putJSON"
        /\ CallerHeaders(c) = << <<"Content-Type", Str("text/plain")>> >>
        /\ Get(calls[c].request.headers, "Content-Type") = Str("text/plain")
        /\ Get(calls[c].request.headers, "Accept") = Str("application/json")

\* C2: POST, DELETE and PUT carry a body exactly when the configuration has
\* data, and the body is the JSON text of data; GET and HEAD never carry one.
C2_BodyPolicy ==
    \A c \in CallIds : Active(c) =>
        LET o == calls[c].request.options
            cfg == ConfigOf(c)
        IN IF calls[c].op \in BodyOps
           THEN /\ Has(o, "body") <=> Has(cfg, "data")
                /\ Has(cfg, "data") =>
                       Get(o, "body") = Str(Stringify(orig[Get(cfg, "data")[2]]))
           ELSE ~Has(o, "body")

\* A DELETE with data { a: 1, b: "x" } went out with that JSON text as body,
\* and a configuration with the empty object as data is among the inputs.
C2_Witness ==
    \E c \in CallIds :
        /\ calls[c].op = "deleteJSON"
        /\ Has(ConfigOf(c), "data")
        /\ Get(calls[c].request.options, "body") = Str("{\"a\":1,\"b\":\"x\"}")

\* C3: a JSON operation whose response has a non-success status fails with an
\* ApiError carrying the response's status and the lookup's message for it,
\* and never resolves.
C3_NonSuccessIsApiError ==
    \A c \in CallIds :
        (calls[c].op \in JsonOps /\ calls[c].response /= NoResponse
            /\ ~calls[c].response.ok) =>
        /\ calls[c].pc = "settled"
        /\ calls[c].outcome.state = "rejected"
        /\ calls[c].outcome.kind = "ApiError"
        /\ calls[c].outcome.status = calls[c].response.status
        /\ calls[c].outcome.message = apiErrorStatusMessage(calls[c].response.status)

\* getJSON answered 404 has failed with ApiError(404, the message for 404).
C3_Witness ==
    \E c \in CallIds :
        /\ calls[c].op = "getJSON"
        /\ calls[c].response.status = 404
        /\ calls[c].outcome.kind = "ApiError"
        /\ calls[c].outcome.status = 404
        /\ calls[c].outcome.message = "Could not find the requested resource"

\* C4: a JSON operation whose success response has a well-formed JSON body
\* resolves with exactly the decoded body.
C4_SuccessResolvesDecoded ==
    \A c \in CallIds :
        (calls[c].op \in JsonOps /\ calls[c].response.ok
            /\ ParseJSON(calls[c].response.body).ok /\ calls[c].pc = "settled") =>
        /\ calls[c].outcome.state = "resolved"
        /\ calls[c].outcome.kind = "json"
        /\ calls[c].outcome.json = ParseJSON(calls[c].response.body).value

\* putJSON answered 200 with body {"a":1} has resolved with the object { a: 1 }.
C4_Witness ==
    \E c \in CallIds :
        /\ calls[c].op = "putJSON"
        /\ calls[c].response.body = "{\"a\":1}"
        /\ calls[c].outcome.state = "resolved"
        /\ calls[c].outcome.json = << <<"a", Num("1")>> >>

\* C5: getHeaders resolves with the response's header collection when the
\* success flag is set and fails with ApiError(status, lookup message) when it
\* is not, and never reads the body.
C5_HeadersOnly ==
    \A c \in CallIds :
        (calls[c].op = "getHeaders" /\ calls[c].response /= NoResponse) =>
        /\ calls[c].bodyReads = 0
        /\ calls[c].pc = "settled"
        /\ calls[c].response.ok =>
               /\ calls[c].outcome.state = "resolved"
               /\ calls[c].outcome.kind = "headers"
               /\ calls[c].outcome.headers = calls[c].response.headers
        /\ ~calls[c].response.ok =>
               /\ calls[c].outcome.state = "rejected"
               /\ calls[c].outcome.kind = "ApiError"
               /\ calls[c].outcome.status = calls[c].response.status
               /\ calls[c].outcome.message =
                      apiErrorStatusMessage(calls[c].response.status)

\* One getHeaders has resolved with the headers of a response whose body is
\* not JSON, another has failed with ApiError(500, ...).
C5_Witness ==
    \E c, d \in CallIds :
        /\ calls[c].op = "getHeaders" /\ calls[d].op = "getHeaders"
        /\ calls[c].response.body = "<html>"
        /\ calls[c].outcome.headers = "Headers#2"
        /\ calls[d].outcome.kind = "ApiError"
        /\ calls[d].outcome.status = 500

\* C6: a failure of the collaborator is the call's failure, unwrapped; a
\* success response whose body is not JSON fails a JSON operation with the
\* decode failure, unwrapped; an ApiError is made for a non-success
\* response only.
C6_FailuresUnwrapped ==
    \A c \in CallIds :
        /\ calls[c].transport /= "" =>
               /\ calls[c].pc = "settled"
               /\ calls[c].outcome.state = "rejected"
               /\ calls[c].outcome.kind = "transport"
               /\ calls[c].outcome.error = calls[c].transport
        /\ (calls[c].op \in JsonOps /\ calls[c].response.ok
               /\ ~ParseJSON(calls[c].response.body).ok /\ calls[c].pc = "settled") =>
               /\ calls[c].outcome.state = "rejected"
               /\ calls[c].outcome.kind = "decode"
               /\ calls[c].outcome.error = "SyntaxError"
        /\ calls[c].outcome.kind = "ApiError" =>
               calls[c].response /= NoResponse /\ ~calls[c].response.ok

\* getHeaders has failed with the collaborator's own failure, and postJSON
\* with the decode failure of a body that is not JSON.
C6_Witness ==
    \E c, d \in CallIds :
        /\ calls[c].op = "getHeaders"
        /\ calls[c].transport = "TypeError: Failed to fetch"
        /\ calls[c].outcome.error = "TypeError: Failed to fetch"
        /\ calls[d].op = "postJSON"
        /\ calls[d].response.body = "<html>"
        /\ calls[d].outcome.kind = "decode"

\* C7: a call has invoked the collaborator exactly once, with the
\* configuration's url and the operation's method, whatever became of it.
C7_OneRequest ==
    \A c \in CallIds : Active(c) =>
        /\ calls[c].fetches = 1
        /\ calls[c].request.url = Get(ConfigOf(c), "url")[2]
        /\ Get(calls[c].request.options, "method") = Str(MethodOf(calls[c].op))

\* A DELETE to /api/a has failed on its status and a call failed by the
\* collaborator is settled too, each after one request.
C7_Witness ==
    \E c, d \in CallIds :
        /\ calls[c].op = "deleteJSON"
        /\ calls[c].request.url = "/api/a"
        /\ calls[c].outcome.kind = "ApiError"
        /\ calls[c].fetches = 1
        /\ calls[d].outcome.kind = "transport"
        /\ calls[d].pc = "settled"
        /\ calls[d].fetches = 1

\* The outcome of a call by its own operation, response and collaborator
\* failure alone.
AloneOutcome(c) ==
    IF calls[c].transport /= "" THEN fetchCatch(calls[c].transport).outcome
    ELSE IF calls[c].response = NoResponse THEN Pending
    ELSE IF calls[c].op = "getHeaders" THEN getHeadersThen(calls[c].response).outcome
    ELSE IF jsonThen(calls[c].response).pc = "settled"
         THEN jsonThen(calls[c].response).outcome
    ELSE IF calls[c].pc = "decoding" THEN Pending
    ELSE decodeThen(calls[c].response)

\* C8: with several calls in flight and their requests settled in any order,
\* each call's request is the one its own operation and configuration give,
\* its outcome the one its own response gives, and no call waits for another:
\* a request in flight can settle, and a decoding can end, in every state.
C8_CallsIndependent ==
    \A c \in CallIds : Active(c) =>
        /\ calls[c].request = Invoke(calls[c].op, orig, calls[c].config).request
        /\ calls[c].outcome = AloneOutcome(c)
        /\ calls[c].pc = "fetching" =>
               /\ \A e \in TransportErrors : ENABLED FetchReject(c, e)
               /\ \A r \in Responses :
                      ENABLED (FetchResolveJSON(c, r) \/ FetchResolveHeaders(c, r))
        /\ calls[c].pc = "decoding" => ENABLED DecodeSettle(c)

\* The call issued second has resolved while the call issued first, on the
\* other configuration, is still waiting for its response.
C8_Witness ==
    \E c, d \in CallIds :
        /\ c < d
        /\ calls[c].pc = "fetching"
        /\ calls[d].pc = "settled"
        /\ calls[d].outcome.state = "resolved"
        /\ calls[c].config /= calls[d].config
        /\ calls[c].op = calls[d].op

\* C9: no call changes the caller's configuration, headers or data objects,
\* so a call on a configuration used before issues the request a call on the
\* configuration as first supplied issues.
C9_InputsUnchanged ==
    /\ heap = orig
    /\ \A c \in CallIds : (Active(c) /\ calls[c].reused) =>
           calls[c].request = Invoke(calls[c].op, orig, calls[c].config).request

\* A POST on a configuration used by an earlier call, with headers that lack
\* Accept and with data, is in flight.
C9_Witness ==
    \E c \in CallIds :
        /\ calls[c].reused
        /\ calls[c].pc = "fetching"
        /\ calls[c].op = "postJSON"
        /\ Has(ConfigOf(c), "data")
        /\ Has(ConfigOf(c), "headers")
        /\ ~Has(CallerHeaders(c), "Accept")

\* C10: the options handed to the collaborator hold method and headers, and
\* body only for POST, DELETE and PUT with data; nothing else of the
\* configuration is forwarded, and method is the operation's.
C10_OnlyMethodHeadersBody ==
    \A c \in CallIds : Active(c) =>
        LET o == calls[c].request.options
        IN /\ {"method", "headers"} \subseteq Keys(o)
           /\ Keys(o) \subseteq {"method", "headers", "body"}
           /\ Has(o, "body") => calls[c].op \in BodyOps /\ Has(ConfigOf(c), "data")
           /\ Get(o, "method")[2] = MethodOf(calls[c].op)

\* A GET on a configuration that carries credentials, method and body went
\* out with method GET and headers alone.
C10_Witness ==
    \E c \in CallIds :
        /\ calls[c].op = "getJSON"
        /\ Get(ConfigOf(c), "credentials") = Str("include")
        /\ Get(ConfigOf(c), "method") = Str("PATCH")
        /\ Has(ConfigOf(c), "data")
        /\ Keys(calls[c].request.options) = {"method", "headers"}
        /\ Get(calls[c].request.options, "method") = Str("GET")

====
